---- MODULE Spec2Model ----
(***************************************************************************)
(* Model of the check orchestration engine of review_bot (package app).    *)
(*                                                                         *)
(* Every webhook delivery is handled by one flow (the goroutine the HTTP   *)
(* server runs HandleWebhook on).  Flows interleave at the calls that      *)
(* leave the process: platform API calls, repository provisioning,         *)
(* subprocesses, and operations on the file system and on the process      *)
(* working directory, which all flows share.  Spec handles NumFlows        *)
(* deliveries and SpecConcurrent one more; in both, a delivery may arrive  *)
(* while earlier ones are being handled or after they returned.            *)
(* SpecParse invokes one runner, without interruption, on a provisioned    *)
(* directory and on what its tool wrote, both chosen by InitParse.         *)
(*                                                                         *)
(* Text is a sequence of tokens.  A token is either one of the delimiter   *)
(* characters the code inspects (":", "#", " ", "/") or a maximal run of   *)
(* other characters; a run made of digits only is listed in Digits.        *)
(***************************************************************************)
EXTENDS Integers, Sequences, FiniteSets, TLC

VARIABLES
    pc,       \* pc[f]: the position of flow f in its handler
    event,    \* event[f]: the webhook event flow f was delivered
    calls,    \* calls[f]: the calls flow f has issued so far, in order
    curDir,   \* curDir[f]: the local variable curDir (os.Getwd result)
    result,   \* result[f]: the runner's *Result (<<>> is nil, <<r>> is &r)
    err,      \* err[f]: the error the handler returned ("nil" when none)
    fs,       \* the directories that exist under /tmp
    cwd,      \* the working directory of the server process
    input,    \* SpecParse: the runner under study, its dir and its tool's run
    returned  \* SpecParse: what the runner's invocations returned, in order

vars == <<pc, event, calls, curDir, result, err, fs, cwd, input, returned>>

----------------------------------------------------------------------------
(* Bounds of the model *)

\* the number of webhook deliveries of Spec; SpecConcurrent has one more
NumFlows == 1

\* SpecParse: the longest stream a tool writes, in lines, and the number of
\* times the runner is invoked on it
MaxLines == 3
MaxInvocations == 2

\* the flows: one for each delivery, all of them able to run concurrently
Flows == DOMAIN pc

----------------------------------------------------------------------------
(* Constants of the program *)

inProgress == "in_progress"
buildifierCheck == "buildifier"
buildifierFix == "buildifier-fix"
nogoCheck == "bazel"

checks == <<"buildifier", "bazel">>

\* app.appID, the --github.app.id flag; OtherAppID is any other app
appID == "app"
OtherAppID == "other-app"

\* the directory the server was started in
ServerDir == <<"/", "srv">>

NoDir == <<>>

\* the runners a checkFn value can be
RunnerNames == {"checkBuildifier", "checkBazelBuild"}

\* the check a runner is registered for in GetCheckFn
GetCheckName(fn) == IF fn = "checkBuildifier" THEN buildifierCheck ELSE nogoCheck

GetCheckFn(checkName) ==
    CASE checkName = "buildifier" -> [fn |-> "checkBuildifier", err |-> "nil"]
      [] checkName = "bazel" -> [fn |-> "checkBazelBuild", err |-> "nil"]
      [] OTHER -> [fn |-> "nil", err |-> "checkFn not found"]

\* event.Repo.GetFullName(): "<owner>/<name>"
GetFullName(repo) == <<"o", "/", repo>>

\* fmt.Sprintf("/tmp/%s/%s", fullRepoName, checkName)
getTmpDir(fullRepoName, checkName) ==
    <<"/", "tmp", "/">> \o fullRepoName \o <<"/", checkName>>

----------------------------------------------------------------------------
(* Webhook events *)

\* the repositories the app is installed on, all of owner "o"
Repos == {"r1", "r2"}
SHAs == {"sha1", "sha2"}
NoEvent == [type |-> "none", action |-> "-", app |-> "-", repo |-> "-",
            name |-> "-", sha |-> "-", ident |-> "-"]

Event(type, action, app, repo, name, sha, ident) ==
    [type |-> type, action |-> action, app |-> app, repo |-> repo,
     name |-> name, sha |-> sha, ident |-> ident]

\* check_suite events: the action, the repository, the suite's head SHA
CheckSuiteEvents ==
    { Event("check_suite", "requested", "-", "r1", "-", sha, "-") : sha \in SHAs }
    \cup
    { Event("check_suite", a, "-", "r1", "-", "sha1", "-") :
        a \in {"rerequested", "completed"} }

\* check_run events: the run's app, name and head SHA; requested_action
\* events carry the identifier of the requested action
CheckRunEvents ==
    { Event("check_run", "created", appID, "r1", n, "sha1", "-") :
        n \in {"buildifier", "bazel", "golint"} }
    \cup
    { Event("check_run", "created", appID, "r2", "bazel", "sha2", "-") }
    \cup
    { Event("check_run", a, appID, "r1", "bazel", "sha2", "-") :
        a \in {"rerequested", "completed"} }
    \cup
    { Event("check_run", "requested_action", appID, "r1", "buildifier", "sha1", i) :
        i \in {buildifierFix, "other-fix"} }
    \cup
    { Event("check_run", a, OtherAppID, "r1", "buildifier", "sha1", buildifierFix) :
        a \in {"created", "rerequested", "requested_action", "completed"} }

\* any event type HandleWebhook has no case for
OtherEvents == { Event("push", "-", "-", "r1", "-", "sha1", "-") }

Events == CheckSuiteEvents \cup CheckRunEvents \cup OtherEvents

----------------------------------------------------------------------------
(* The record of one call a flow issued *)

\* op: the call; arg: its arguments, a tuple of strings; ok: whether it
\* succeeded; at: the directory it is about (for a subprocess, the process
\* working directory it ran in); opts: <<o>> for an update carrying options o
\* and for a runner's subprocess that runCmd returned o for
Call(op, arg, ok, at) ==
    [op |-> op, arg |-> arg, ok |-> ok, at |-> at, opts |-> <<>>]

CallWith(op, arg, ok, at, o) ==
    [op |-> op, arg |-> arg, ok |-> ok, at |-> at, opts |-> <<o>>]

LogAll(f, cs) == calls' = [calls EXCEPT ![f] = @ \o cs]

Log(f, c) == LogAll(f, <<c>>)

Goto(f, p) == pc' = [pc EXCEPT ![f] = p]

\* the handler returns e to HandleWebhook, which logs it
Return(f, e) ==
    /\ pc' = [pc EXCEPT ![f] = "done"]
    /\ err' = [err EXCEPT ![f] = e]

\* the server is up, started in ServerDir, and n deliveries are to come
InitFlows(n) ==
    /\ pc = [f \in 1..n |-> "idle"]
    /\ event = [f \in 1..n |-> NoEvent]
    /\ calls = [f \in 1..n |-> <<>>]
    /\ curDir = [f \in 1..n |-> NoDir]
    /\ result = [f \in 1..n |-> <<>>]
    /\ err = [f \in 1..n |-> "nil"]
    /\ fs = {}
    /\ cwd = ServerDir

\* Spec and SpecConcurrent study no runner in isolation
NoInput == [fn |-> "nil", dir |-> NoDir]

Init == InitFlows(NumFlows) /\ input = NoInput /\ returned = <<>>

InitConcurrent == InitFlows(NumFlows + 1) /\ input = NoInput /\ returned = <<>>

----------------------------------------------------------------------------
(* HandleWebhook *)

\* Route without the test of the check run's app
RouteAnyApp(e) ==
    CASE e.type = "check_suite" ->
            IF e.action = "requested" \/ e.action = "rerequested"
            THEN "CreateCheckRuns" ELSE "none"
      [] e.type = "check_run" ->
            CASE e.action = "created" -> "InitCheckRun"
              [] e.action = "rerequested" -> "CreateCheckRuns"
              [] e.action = "requested_action" -> "TakeRequestedAction"
              [] OTHER -> "none"
      [] OTHER -> "none"

\* Route with the cases "created" and "rerequested" falling through to the
\* same handler
RouteRerunInit(e) ==
    CASE e.type = "check_suite" ->
            IF e.action = "requested" \/ e.action = "rerequested"
            THEN "CreateCheckRuns" ELSE "none"
      [] e.type = "check_run" ->
            IF e.app = appID
            THEN CASE e.action = "created" -> "InitCheckRun"
                   [] e.action = "rerequested" -> "InitCheckRun"
                   [] e.action = "requested_action" -> "TakeRequestedAction"
                   [] OTHER -> "none"
            ELSE "none"
      [] OTHER -> "none"

\* the handler the switch of HandleWebhook selects for event e
Route(e) ==
    CASE e.type = "check_suite" ->
            IF e.action = "requested" \/ e.action = "rerequested"
            THEN "CreateCheckRuns" ELSE "none"
      [] e.type = "check_run" ->
            IF e.app = appID
            THEN CASE e.action = "created" -> "InitCheckRun"
                   [] e.action = "rerequested" -> "CreateCheckRuns"
                   [] e.action = "requested_action" -> "TakeRequestedAction"
                   [] OTHER -> "none"
            ELSE "none"
      [] OTHER -> "none"

EntryPoint(h) ==
    CASE h = "CreateCheckRuns" -> "ccr_create"
      [] h = "InitCheckRun" -> "icr_in_progress"
      [] h = "TakeRequestedAction" -> "tra_ident"
      [] OTHER -> "done"

\* flows are numbered in the order their deliveries arrive
Arrived(f) == \A g \in Flows : g < f => pc[g] # "idle"

\* a payload that fails ValidatePayload or ParseWebHook: writeError, no dispatch
RejectPayload(f) ==
    /\ pc[f] = "idle"
    /\ Arrived(f)
    /\ Return(f, "invalid payload")
    /\ UNCHANGED <<event, calls, curDir, result, fs, cwd, input, returned>>

\* a validated payload: the switch on the event's type and action
HandleWebhook(f) ==
    /\ pc[f] = "idle"
    /\ Arrived(f)
    /\ \E e \in Events :
        /\ event' = [event EXCEPT ![f] = e]
        /\ IF Route(e) = "none"
           THEN calls' = calls
           ELSE Log(f, Call("invoke", <<Route(e)>>, TRUE, NoDir))
        /\ Goto(f, EntryPoint(Route(e)))
    /\ UNCHANGED <<curDir, result, err, fs, cwd, input, returned>>

----------------------------------------------------------------------------
(* CreateCheckRuns *)

\* the head SHA HandleWebhook passes: the suite's or the run's
HeadSHA(e) == e.sha

\* the number of createCheckRun calls flow f has issued
Created(f) == Len(SelectSeq(calls[f], LAMBDA c : c.op = "createCheckRun"))

\* CreateCheckRuns going on to the next check after a failed call
CreateCheckRunsUnchecked(f) ==
    /\ pc[f] = "ccr_create"
    /\ LET i == Created(f) + 1
           checkName == checks[i]
       IN \E ok \in BOOLEAN :
            /\ Log(f, Call("createCheckRun", <<checkName, HeadSHA(event[f])>>, ok, NoDir))
            /\ IF i = Len(checks) THEN Return(f, "nil")
               ELSE Goto(f, "ccr_create") /\ err' = err
    /\ UNCHANGED <<event, curDir, result, fs, cwd, input, returned>>

\* one iteration of the loop over checks: one createCheckRun call, which
\* the platform accepts or answers with an error
CreateCheckRuns(f) ==
    /\ pc[f] = "ccr_create"
    /\ LET i == Created(f) + 1
           checkName == checks[i]
       IN \E ok \in BOOLEAN :
            /\ Log(f, Call("createCheckRun", <<checkName, HeadSHA(event[f])>>, ok, NoDir))
            /\ IF ~ok THEN Return(f, "createCheckRun failed")
               ELSE IF i = Len(checks) THEN Return(f, "nil")
               ELSE Goto(f, "ccr_create") /\ err' = err
    /\ UNCHANGED <<event, curDir, result, fs, cwd, input, returned>>

----------------------------------------------------------------------------
(* Text: strings.TrimSpace, strings.HasPrefix, strings.Split, strconv.Atoi *)

\* the digit runs that occur in tool output, with their strconv.Atoi value;
\* a run too long for an int makes Atoi fail and return 0
Digits == {"0", "3", "12", "99999999999999999999"}

Atoi(t) ==
    CASE t = "0" -> [n |-> 0, err |-> "nil"]
      [] t = "3" -> [n |-> 3, err |-> "nil"]
      [] t = "12" -> [n |-> 12, err |-> "nil"]
      [] OTHER -> [n |-> 0, err |-> "value out of range"]

RECURSIVE TrimLeft(_)
TrimLeft(s) == IF s # <<>> /\ Head(s) = " " THEN TrimLeft(Tail(s)) ELSE s

RECURSIVE TrimRight(_)
TrimRight(s) ==
    IF s # <<>> /\ s[Len(s)] = " " THEN TrimRight(SubSeq(s, 1, Len(s) - 1)) ELSE s

TrimSpace(s) == TrimRight(TrimLeft(s))

HasPrefix(s, p) == Len(s) >= Len(p) /\ SubSeq(s, 1, Len(p)) = p

\* strings.Split(s, "#")[0]: the text before the first "#", all of s without
Before(s, d) ==
    IF \E i \in 1..Len(s) : s[i] = d
    THEN SubSeq(s, 1, (CHOOSE i \in 1..Len(s) :
                          s[i] = d /\ \A j \in 1..(i - 1) : s[j] # d) - 1)
    ELSE s

\* the elements of a path: the tokens between its separators
Elements(path) == SelectSeq(path, LAMBDA t : t # "/")

IsAbs(path) == path # <<>> /\ path[1] = "/"

RECURSIVE Join(_)
Join(elems) ==
    IF Len(elems) = 0 THEN <<>>
    ELSE IF Len(elems) = 1 THEN elems
    ELSE <<Head(elems), "/">> \o Join(Tail(elems))

\* the length of the longest common prefix of two sequences
RECURSIVE Common(_, _)
Common(a, b) ==
    IF a # <<>> /\ b # <<>> /\ Head(a) = Head(b)
    THEN 1 + Common(Tail(a), Tail(b)) ELSE 0

\* filepath.Rel(basepath, targpath) for paths free of "." and ".." elements:
\* an error, and the empty path, when only one of them is absolute
Rel(basepath, targpath) ==
    LET b == Elements(basepath)
        t == Elements(targpath)
        n == Common(b, t)
        ups == [i \in 1..(Len(b) - n) |-> ".."]
        rel == ups \o SubSeq(t, n + 1, Len(t))
    IN IF IsAbs(basepath) # IsAbs(targpath)
       THEN [path |-> <<>>, err |-> "Rel: can't make relative"]
       ELSE [path |-> IF rel = <<>> THEN <<".">> ELSE Join(rel), err |-> "nil"]

----------------------------------------------------------------------------
(* runCmd and the runners *)

\* What a subprocess does: cmd.Run's error and what it wrote to each stream,
\* a sequence of lines; a stream with no line is an empty buffer.
Exec(runErr, stdout, stderr) ==
    [err |-> runErr, stdout |-> stdout, stderr |-> stderr]

\* runCmd returning the process's error whatever the process wrote
runCmdKeepsError(x) == [stdout |-> x.stdout, stderr |-> x.stderr, err |-> x.err]

\* runCmd's return for a subprocess that behaved as x: the process's error
\* is dropped whenever it wrote to stderr
runCmd(x) ==
    [stdout |-> x.stdout, stderr |-> x.stderr,
     err |-> IF Len(x.stderr) > 0 THEN "nil" ELSE x.err]

Annotation(message, line, path, severity) ==
    [Message |-> message, Line |-> line, Path |-> path, Severity |-> severity]

NoAction == <<>>

\* the Result a runner allocates: only Title set
NewResult(title) ==
    [Title |-> title, Summary |-> <<>>, Conclusion |-> "", Annotations |-> <<>>,
     URL |-> <<>>, Action |-> NoAction]

\* the annotation checkBuildifier makes of one line of the tool's stderr
BuildifierAnnotation(dir, line) ==
    LET rel == Rel(dir, TrimSpace(Before(line, "#"))).path
    IN Annotation(<<"file ", "\"">> \o rel \o <<"\"", " needs reformat">>,
                  1, rel, "failure")

\* checkBuildifier offering the fix whatever it found
checkBuildifierActionAlways(dir, r) ==
    IF Len(r.stderr) = 0 /\ r.err # "nil"
    THEN [res |-> <<>>, err |-> r.err]
    ELSE LET annotations ==
                 [i \in 1..Len(r.stderr) |-> BuildifierAnnotation(dir, r.stderr[i])]
             res == [NewResult("Buildifier Lint Result") EXCEPT
                        !.Action = << [Label |-> "Fix this",
                                       Description |-> "Automatically fix buildifier errors.",
                                       Identifier |-> buildifierFix] >>]
         IN [res |-> << IF Len(annotations) > 0
                        THEN [res EXCEPT
                                !.Summary = <<Len(annotations), " BUILD files need reformat">>,
                                !.Conclusion = "failure",
                                !.Annotations = annotations]
                        ELSE [res EXCEPT
                                !.Summary = <<"No issues found.">>,
                                !.Conclusion = "success"] >>,
             err |-> "nil"]

\* checkBuildifier(_, dir), runCmd having returned r
checkBuildifier(dir, r) ==
    IF Len(r.stderr) = 0 /\ r.err # "nil"
    THEN [res |-> <<>>, err |-> r.err]
    ELSE LET annotations ==
                 [i \in 1..Len(r.stderr) |-> BuildifierAnnotation(dir, r.stderr[i])]
             res == NewResult("Buildifier Lint Result")
         IN [res |-> << IF Len(annotations) > 0
                        THEN [res EXCEPT
                                !.Summary = <<Len(annotations), " BUILD files need reformat">>,
                                !.Conclusion = "failure",
                                !.Annotations = annotations,
                                !.Action = << [Label |-> "Fix this",
                                               Description |-> "Automatically fix buildifier errors.",
                                               Identifier |-> buildifierFix] >>]
                        ELSE [res EXCEPT
                                !.Summary = <<"No issues found.">>,
                                !.Conclusion = "success"] >>,
             err |-> "nil"]

\* urlRegex, `Streaming build results to: (?P<url>.*)`, is not anchored
UrlPrefix == <<"Streaming", " ", "build", " ", "results", " ", "to", ":", " ">>

UrlStarts(line) ==
    {i \in 1..Len(line) :
        /\ i + Len(UrlPrefix) - 1 <= Len(line)
        /\ SubSeq(line, i, i + Len(UrlPrefix) - 1) = UrlPrefix}

\* FindUrl taking the whole match, matches[0], for the url
FindUrlWholeMatch(line) ==
    IF UrlStarts(line) = {} THEN [matched |-> FALSE, url |-> <<>>]
    ELSE LET i == CHOOSE k \in UrlStarts(line) : \A j \in UrlStarts(line) : k <= j
         IN [matched |-> TRUE, url |-> SubSeq(line, i, Len(line))]

\* urlRegex.FindStringSubmatch(line): the leftmost match, <<>> when none
FindUrl(line) ==
    IF UrlStarts(line) = {} THEN [matched |-> FALSE, url |-> <<>>]
    ELSE LET i == CHOOSE k \in UrlStarts(line) : \A j \in UrlStarts(line) : k <= j
         IN [matched |-> TRUE, url |-> SubSeq(line, i + Len(UrlPrefix), Len(line))]

\* lineCommentRegex, `^(?P<file>.*):(?P<line>\d+):(?P<col>\d+):(?P<comment>.*)`:
\* the positions of a ":" that starts ":<digits>:<digits>:"
DiagnosticStarts(line) ==
    {i \in 1..Len(line) :
        /\ i + 4 <= Len(line)
        /\ line[i] = ":" /\ line[i + 1] \in Digits /\ line[i + 2] = ":"
        /\ line[i + 3] \in Digits /\ line[i + 4] = ":"}

\* lineCommentRegex.FindStringSubmatch(line): file is greedy, so the last
\* such position is taken
FindDiagnostic(line) ==
    IF DiagnosticStarts(line) = {}
    THEN [matched |-> FALSE, file |-> <<>>, line |-> "", comment |-> <<>>]
    ELSE LET i == CHOOSE k \in DiagnosticStarts(line) :
                      \A j \in DiagnosticStarts(line) : j <= k
         IN [matched |-> TRUE, file |-> SubSeq(line, 1, i - 1),
             line |-> line[i + 1], comment |-> SubSeq(line, i + 5, Len(line))]

\* IsNoise knowing the ERROR prefix only
IsNoiseErrorOnly(line) == HasPrefix(line, <<"ERROR", ":", " ">>)

IsNoise(line) ==
    \/ HasPrefix(line, <<"ERROR", ":", " ">>)
    \/ HasPrefix(line, <<"INFO", ":", " ">>)
    \/ HasPrefix(line, <<"FAILED", ":", " ">>)

\* ScanBazel taking the url of every matching line, the last one staying
RECURSIVE ScanBazelLastUrl(_, _)
ScanBazelLastUrl(lines, st) ==
    IF lines = <<>> THEN st
    ELSE LET line == TrimSpace(Head(lines))
             u == FindUrl(line)
             st1 == IF u.matched THEN [st EXCEPT !.url = u.url] ELSE st
             d == FindDiagnostic(line)
         IN IF IsNoise(line) \/ ~d.matched \/ line \in st1.m
            THEN ScanBazelLastUrl(Tail(lines), st1)
            ELSE ScanBazelLastUrl(Tail(lines),
                    [st1 EXCEPT
                       !.annotations =
                           Append(@, Annotation(d.comment, Atoi(d.line).n,
                                                d.file, "failure")),
                       !.m = @ \cup {line}])

\* ScanBazel without the test of the dedup set
RECURSIVE ScanBazelNoDedup(_, _)
ScanBazelNoDedup(lines, st) ==
    IF lines = <<>> THEN st
    ELSE LET line == TrimSpace(Head(lines))
             u == FindUrl(line)
             st1 == IF st.url = <<>> /\ u.matched
                    THEN [st EXCEPT !.url = u.url] ELSE st
             d == FindDiagnostic(line)
         IN IF IsNoise(line) \/ ~d.matched
            THEN ScanBazelNoDedup(Tail(lines), st1)
            ELSE ScanBazelNoDedup(Tail(lines),
                    [st1 EXCEPT
                       !.annotations =
                           Append(@, Annotation(d.comment, Atoi(d.line).n,
                                                d.file, "failure")),
                       !.m = @ \cup {line}])

\* the loop of checkBazelBuild over the lines of stdout: st holds the local
\* variables url, m (the dedup set) and annotations
RECURSIVE ScanBazel(_, _)
ScanBazel(lines, st) ==
    IF lines = <<>> THEN st
    ELSE LET line == TrimSpace(Head(lines))
             u == FindUrl(line)
             st1 == IF st.url = <<>> /\ u.matched
                    THEN [st EXCEPT !.url = u.url] ELSE st
             d == FindDiagnostic(line)
         IN IF IsNoise(line) \/ ~d.matched \/ line \in st1.m
            THEN ScanBazel(Tail(lines), st1)
            ELSE ScanBazel(Tail(lines),
                    [st1 EXCEPT
                       !.annotations =
                           Append(@, Annotation(d.comment, Atoi(d.line).n,
                                                d.file, "failure")),
                       !.m = @ \cup {line}])

\* ParseBazel taking the conclusion from the exit of the tool
ParseBazelByExitStatus(r) ==
    LET st == ScanBazel(r.stdout, [url |-> <<>>, m |-> {}, annotations |-> <<>>])
        res == [NewResult("Build result") EXCEPT !.Annotations = st.annotations]
    IN [(IF r.err = "nil"
         THEN [res EXCEPT !.Summary = <<"No issues found.">>,
                          !.Conclusion = "success"]
         ELSE [res EXCEPT !.Summary = <<"Build doesn't complete successfully">>,
                          !.Conclusion = "failure"])
        EXCEPT !.URL = st.url]

\* ParseBazel with a dedup set that outlives the invocation: a later
\* invocation starts from the lines the earlier ones have seen
ParseBazelSharedDedup(r) ==
    LET seen == IF returned = <<>> THEN {}
                ELSE {TrimSpace(r.stdout[i]) : i \in DOMAIN r.stdout}
        st == ScanBazel(r.stdout, [url |-> <<>>, m |-> seen, annotations |-> <<>>])
        res == NewResult("Build result")
    IN [(IF Len(st.annotations) = 0
         THEN [res EXCEPT !.Summary = <<"No issues found.">>,
                          !.Conclusion = "success"]
         ELSE [res EXCEPT !.Summary = <<"Build doesn't complete successfully">>,
                          !.Conclusion = "failure",
                          !.Annotations = st.annotations])
        EXCEPT !.URL = st.url]

\* checkBazelBuild from the return r of runCmd to the assignment of res.URL
ParseBazel(r) ==
    LET st == ScanBazel(r.stdout, [url |-> <<>>, m |-> {}, annotations |-> <<>>])
        res == NewResult("Build result")
    IN [(IF Len(st.annotations) = 0
         THEN [res EXCEPT !.Summary = <<"No issues found.">>,
                          !.Conclusion = "success"]
         ELSE [res EXCEPT !.Summary = <<"Build doesn't complete successfully">>,
                          !.Conclusion = "failure",
                          !.Annotations = st.annotations])
        EXCEPT !.URL = st.url]

\* createCompletedUpdateCheckRunOptions(result, checkName)
createCompletedUpdateCheckRunOptions(res, checkName) ==
    [Name |-> checkName, Status |-> "completed", Conclusion |-> res.Conclusion,
     Title |-> res.Title, Summary |-> res.Summary,
     Annotations |-> [i \in 1..Len(res.Annotations) |->
                         [Path |-> res.Annotations[i].Path,
                          StartLine |-> res.Annotations[i].Line,
                          EndLine |-> res.Annotations[i].Line,
                          AnnotationLevel |-> res.Annotations[i].Severity,
                          Message |-> res.Annotations[i].Message]],
     DetailsURL |-> res.URL,
     Actions |-> res.Action]

----------------------------------------------------------------------------
(* What the subprocesses of a flow can do *)

LintLine(dir) == dir \o <<"/", "BUILD", " ", "#", " ", "reformat">>

\* buildifier --mode=check -r dir: nothing to report; one file to reformat
\* (reported on stderr, unsuccessful exit); or the tool cannot be started
BuildifierCheckRuns(dir) ==
    { Exec("nil", <<>>, <<>>),
      Exec("exit status 4", <<>>, <<LintLine(dir)>>),
      Exec("executable file not found", <<>>, <<>>) }

UrlLine == UrlPrefix \o <<"https", ":", "/", "/", "x", "/", "y">>
ErrorLine == <<"ERROR", ":", " ", "build", " ", "failed">>
DiagLine ==
    <<"pkg", "/", "BUILD", ":", "12", ":", "3", ":", " ", "undeclared", " ", "dependency">>
NoteLine == <<"Loading", ":", " ", "0", " ", "packages">>

\* bb build //...: a clean build; a failed build with diagnostics on stdout;
\* a failed build whose log has no diagnostic line; a build that writes to
\* stderr only; or the tool cannot be started
BazelRuns ==
    { Exec("nil", <<UrlLine>>, <<>>),
      Exec("exit status 1", <<UrlLine, ErrorLine, DiagLine, DiagLine>>, <<NoteLine>>),
      Exec("exit status 1", <<UrlLine, ErrorLine>>, <<>>),
      Exec("nil", <<>>, <<NoteLine>>),
      Exec("executable file not found", <<>>, <<>>) }

\* git and buildifier --mode=fix: success; failure reported on stderr;
\* failure with nothing on stderr
ToolRuns ==
    { Exec("nil", <<>>, <<>>),
      Exec("exit status 1", <<>>, <<<<"fatal", ":", " ", "failed">>>>),
      Exec("exit status 128", <<>>, <<>>) }

----------------------------------------------------------------------------
(* cloneRepo *)

\* How one cloneRepo call can go.  PlainCloneContext refuses a target
\* directory that exists already (nothing in cloneRepo removes it first) and
\* removes what it created when the clone itself fails; the directory stays
\* when a later step of cloneRepo (Pull, Checkout) fails.
CloneOutcomes(dir) ==
    IF dir \in fs THEN {"token failed", "repository already exists"}
    ELSE {"token failed", "clone failed", "ref failed", "cloned"}

cloneRepo(f, refKind, dir, outcome) ==
    /\ outcome \in CloneOutcomes(dir)
    /\ fs' = IF outcome \in {"ref failed", "cloned"} THEN fs \cup {dir} ELSE fs
    /\ Log(f, Call("cloneRepo",
                   <<refKind, outcome, IF dir \in fs THEN "existed" ELSE "absent">>,
                   outcome = "cloned", dir))

----------------------------------------------------------------------------
(* InitCheckRun *)

\* dir := getTmpDir(fullRepoName, checkName)
CheckDir(e) == getTmpDir(GetFullName(e.repo), e.name)

\* UpdateInProgress with the error of the update dropped
UpdateInProgressUnchecked(f) ==
    /\ pc[f] = "icr_in_progress"
    /\ \E ok \in BOOLEAN :
        /\ Log(f, Call("updateCheckRun", <<"in_progress">>, ok, NoDir))
        /\ Goto(f, "icr_clone") /\ err' = err
    /\ UNCHANGED <<event, curDir, result, fs, cwd, input, returned>>

\* the first UpdateCheckRun: status in_progress
UpdateInProgress(f) ==
    /\ pc[f] = "icr_in_progress"
    /\ \E ok \in BOOLEAN :
        /\ Log(f, Call("updateCheckRun", <<"in_progress">>, ok, NoDir))
        /\ IF ok THEN Goto(f, "icr_clone") /\ err' = err
           ELSE Return(f, "update failed")
    /\ UNCHANGED <<event, curDir, result, fs, cwd, input, returned>>

\* InitClone with the error of cloneRepo dropped
InitCloneUnchecked(f) ==
    /\ pc[f] = "icr_clone"
    /\ \E outcome \in CloneOutcomes(CheckDir(event[f])) :
        /\ cloneRepo(f, "hash", CheckDir(event[f]), outcome)
        /\ Goto(f, "icr_getfn") /\ err' = err
    /\ UNCHANGED <<event, curDir, result, cwd, input, returned>>

\* cloneRepo at the run's head SHA; the deferred cleanup is registered only
\* after cloneRepo returned without error
InitClone(f) ==
    /\ pc[f] = "icr_clone"
    /\ \E outcome \in CloneOutcomes(CheckDir(event[f])) :
        /\ cloneRepo(f, "hash", CheckDir(event[f]), outcome)
        /\ IF outcome = "cloned" THEN Goto(f, "icr_getfn") /\ err' = err
           ELSE Return(f, "failed to clone repo")
    /\ UNCHANGED <<event, curDir, result, cwd, input, returned>>

\* checker, err := GetCheckFn(checkName)
InitGetCheckFn(f) ==
    /\ pc[f] = "icr_getfn"
    /\ LET c == GetCheckFn(event[f].name)
       IN /\ Log(f, Call("GetCheckFn", <<event[f].name, c.fn>>, c.err = "nil", NoDir))
          /\ err' = [err EXCEPT ![f] = c.err]
          /\ Goto(f, CASE c.fn = "checkBuildifier" -> "cb_run"
                       [] c.fn = "checkBazelBuild" -> "bz_getwd"
                       [] OTHER -> "icr_defer")
    /\ UNCHANGED <<event, curDir, result, fs, cwd, input, returned>>

\* result, err := checker(app, dir): the runner, having issued the calls cs,
\* returned (res, e) to InitCheckRun
RunnerReturn(f, cs, res, e) ==
    /\ LogAll(f, cs \o <<Call("checker", <<e>>, e = "nil", NoDir)>>)
    /\ result' = [result EXCEPT ![f] = res]
    /\ err' = [err EXCEPT ![f] = e]
    /\ Goto(f, IF e # "nil" THEN "icr_defer" ELSE "icr_completed")

\* checkBuildifier: one buildifier subprocess, then the scan of its stderr
CheckBuildifierRun(f) ==
    /\ pc[f] = "cb_run"
    /\ LET dir == CheckDir(event[f])
       IN \E x \in BuildifierCheckRuns(dir) :
            LET ret == checkBuildifier(dir, runCmd(x))
            IN RunnerReturn(f, <<CallWith("runCmd",
                                          <<"buildifier", "--mode=check", runCmd(x).err>>,
                                          x.err = "nil", cwd, runCmd(x))>>,
                            ret.res, ret.err)
    /\ UNCHANGED <<event, curDir, fs, cwd, input, returned>>

\* os.Getwd fails when the working directory has been removed
Getwd == IF cwd = ServerDir \/ cwd \in fs
         THEN [dir |-> cwd, err |-> "nil"]
         ELSE [dir |-> NoDir, err |-> "getwd: no such file or directory"]

\* os.Chdir(dir) fails when dir does not exist
CanChdir(dir) == dir = ServerDir \/ dir \in fs

\* checkBazelBuild: curDir, err := os.Getwd()
BazelGetwd(f) ==
    /\ pc[f] = "bz_getwd"
    /\ curDir' = [curDir EXCEPT ![f] = Getwd.dir]
    /\ LET c == Call("Getwd", <<Getwd.err>>, Getwd.err = "nil", Getwd.dir)
       IN IF Getwd.err = "nil"
          THEN Log(f, c) /\ Goto(f, "bz_chdir") /\ UNCHANGED <<result, err>>
          ELSE RunnerReturn(f, <<c>>, <<>>, "failed to get current directory")
    /\ UNCHANGED <<event, fs, cwd, input, returned>>

\* checkBazelBuild: err = os.Chdir(dir)
BazelChdir(f) ==
    /\ pc[f] = "bz_chdir"
    /\ LET dir == CheckDir(event[f])
           c == Call("Chdir", <<"dir">>, CanChdir(dir), dir)
       IN IF CanChdir(dir)
          THEN cwd' = dir /\ Log(f, c) /\ Goto(f, "bz_run") /\ UNCHANGED <<result, err>>
          ELSE cwd' = cwd /\ RunnerReturn(f, <<c>>, <<>>, "failed to change directory")
    /\ UNCHANGED <<event, curDir, fs, input, returned>>

\* checkBazelBuild: the bb subprocess and the scan of its stdout; an empty
\* stdout returns (nil, err) at once, without changing directory back
BazelRun(f) ==
    /\ pc[f] = "bz_run"
    /\ \E x \in BazelRuns :
        LET r == runCmd(x)
            c == CallWith("runCmd", <<"bb", "build", r.err>>, x.err = "nil", cwd, r)
        IN IF Len(r.stdout) = 0
           THEN RunnerReturn(f, <<c>>, <<>>, r.err)
           ELSE /\ Log(f, c)
                /\ result' = [result EXCEPT ![f] = <<ParseBazel(r)>>]
                /\ Goto(f, "bz_back")
                /\ err' = err
    /\ UNCHANGED <<event, curDir, fs, cwd, input, returned>>

\* checkBazelBuild: err = os.Chdir(curDir), then return res, nil
BazelChdirBack(f) ==
    /\ pc[f] = "bz_back"
    /\ LET c == Call("Chdir", <<"curDir">>, CanChdir(curDir[f]), curDir[f])
       IN IF CanChdir(curDir[f])
          THEN cwd' = curDir[f] /\ RunnerReturn(f, <<c>>, result[f], "nil")
          ELSE cwd' = cwd /\ RunnerReturn(f, <<c>>, <<>>, "failed to change directory")
    /\ UNCHANGED <<event, curDir, fs, input, returned>>

\* createCompletedUpdateCheckRunOptions and the second UpdateCheckRun; a nil
\* result makes createCompletedUpdateCheckRunOptions panic, and the flow
\* unwinds through the deferred cleanup
UpdateCompleted(f) ==
    /\ pc[f] = "icr_completed"
    /\ IF result[f] = <<>>
       THEN /\ err' = [err EXCEPT ![f] = "panic: nil pointer dereference"]
            /\ Goto(f, "icr_defer")
            /\ calls' = calls
       ELSE \E ok \in BOOLEAN :
            LET opts == createCompletedUpdateCheckRunOptions(result[f][1], event[f].name)
            IN /\ Log(f, CallWith("updateCheckRun", <<opts.Status, opts.Conclusion>>,
                                  ok, NoDir, opts))
               /\ IF ok THEN Goto(f, "icr_remove") /\ err' = err
                  ELSE Goto(f, "icr_defer") /\ err' = [err EXCEPT ![f] = "update failed"]
    /\ UNCHANGED <<event, curDir, result, fs, cwd, input, returned>>

\* err = os.RemoveAll(dir) before return nil (the directory a flow made is
\* always removable; a removal error would only be logged)
InitRemoveAll(f) ==
    /\ pc[f] = "icr_remove"
    /\ fs' = fs \ {CheckDir(event[f])}
    /\ Log(f, Call("RemoveAll", <<>>, TRUE, CheckDir(event[f])))
    /\ Goto(f, "icr_defer")
    /\ UNCHANGED <<event, curDir, result, err, cwd, input, returned>>

\* the deferred function: os.RemoveAll(dir); InitCheckRun then returns the
\* error its return statement named
InitDeferred(f) ==
    /\ pc[f] = "icr_defer"
    /\ fs' = fs \ {CheckDir(event[f])}
    /\ Log(f, Call("RemoveAll", <<>>, TRUE, CheckDir(event[f])))
    /\ Goto(f, "done")
    /\ UNCHANGED <<event, curDir, result, err, cwd, input, returned>>

----------------------------------------------------------------------------
(* TakeRequestedAction *)

\* dir := getTmpDir(fullRepoName, buildifierFix)
FixDir(e) == getTmpDir(GetFullName(e.repo), buildifierFix)

\* the test of the requested action's identifier and, for buildifierFix,
\* cloneRepo by branch; the function deferred after it has an empty body
TakeRequestedAction(f) ==
    /\ pc[f] = "tra_ident"
    /\ IF event[f].ident = buildifierFix
       THEN \E outcome \in CloneOutcomes(FixDir(event[f])) :
              /\ cloneRepo(f, "branch", FixDir(event[f]), outcome)
              /\ IF outcome = "cloned" THEN Goto(f, "tra_token") /\ err' = err
                 ELSE Return(f, "failed to clone repo")
       ELSE /\ Return(f, "nil")
            /\ UNCHANGED <<calls, fs>>
    /\ UNCHANGED <<event, curDir, result, cwd, input, returned>>

\* token, err := app.Token(ctx, installationID)
FixToken(f) ==
    /\ pc[f] = "tra_token"
    /\ \E ok \in BOOLEAN :
        /\ Log(f, Call("Token", <<>>, ok, NoDir))
        /\ IF ok THEN Goto(f, "tra_getwd") /\ err' = err
           ELSE Return(f, "failed to get token")
    /\ UNCHANGED <<event, curDir, result, fs, cwd, input, returned>>

\* curDir, err := os.Getwd()
FixGetwd(f) ==
    /\ pc[f] = "tra_getwd"
    /\ curDir' = [curDir EXCEPT ![f] = Getwd.dir]
    /\ Log(f, Call("Getwd", <<Getwd.err>>, Getwd.err = "nil", Getwd.dir))
    /\ IF Getwd.err = "nil" THEN Goto(f, "tra_chdir") /\ err' = err
       ELSE Return(f, "failed to get current directory")
    /\ UNCHANGED <<event, result, fs, cwd, input, returned>>

\* err = os.Chdir(dir)
FixChdir(f) ==
    /\ pc[f] = "tra_chdir"
    /\ LET dir == FixDir(event[f])
       IN /\ Log(f, Call("Chdir", <<"dir">>, CanChdir(dir), dir))
          /\ IF CanChdir(dir)
             THEN cwd' = dir /\ Goto(f, "tra_checkout") /\ err' = err
             ELSE cwd' = cwd /\ Return(f, "failed to change directory")
    /\ UNCHANGED <<event, curDir, result, fs, input, returned>>

\* what follows one runCmd call of the remediation, the subprocess having
\* behaved as x in the process working directory: the flow goes on exactly
\* when runCmd returned no error
FixStep(f, x, tool, sub, next) ==
    /\ Log(f, Call("runCmd", <<tool, sub, runCmd(x).err>>, x.err = "nil", cwd))
    /\ IF runCmd(x).err = "nil" THEN Goto(f, next) /\ err' = err
       ELSE Return(f, "failed: " \o sub)
    /\ UNCHANGED <<event, curDir, result, fs, cwd, input, returned>>

\* runCmd("git", "checkout", "--track", "origin/<headBranch>")
FixCheckout(f) ==
    /\ pc[f] = "tra_checkout"
    /\ \E x \in ToolRuns : FixStep(f, x, "git", "checkout", "tra_fix")

\* FixBuildifier with the error of runCmd dropped
FixBuildifierUnchecked(f) ==
    /\ pc[f] = "tra_fix"
    /\ \E x \in ToolRuns :
        /\ Log(f, Call("runCmd", <<"buildifier", "--mode=fix", runCmd(x).err>>,
                       x.err = "nil", cwd))
        /\ Goto(f, "tra_commit") /\ err' = err
    /\ UNCHANGED <<event, curDir, result, fs, cwd, input, returned>>

\* runCmd("buildifier", "--mode=fix", "-r", dir)
FixBuildifier(f) ==
    /\ pc[f] = "tra_fix"
    /\ \E x \in ToolRuns : FixStep(f, x, "buildifier", "--mode=fix", "tra_commit")

\* runCmd("git", "commit", "-a", ...)
FixCommit(f) ==
    /\ pc[f] = "tra_commit"
    /\ \E x \in ToolRuns : FixStep(f, x, "git", "commit", "tra_push")

\* runCmd("git", "push", url)
FixPush(f) ==
    /\ pc[f] = "tra_push"
    /\ \E x \in ToolRuns : FixStep(f, x, "git", "push", "tra_back")

\* err = os.Chdir(curDir), then return nil
FixChdirBack(f) ==
    /\ pc[f] = "tra_back"
    /\ Log(f, Call("Chdir", <<"curDir">>, CanChdir(curDir[f]), curDir[f]))
    /\ IF CanChdir(curDir[f])
       THEN cwd' = curDir[f] /\ Return(f, "nil")
       ELSE cwd' = cwd /\ Return(f, "failed to change directory back")
    /\ UNCHANGED <<event, curDir, result, fs, input, returned>>

----------------------------------------------------------------------------

Next ==
    \E f \in Flows :
        \/ RejectPayload(f)
        \/ HandleWebhook(f)
        \/ CreateCheckRuns(f)
        \/ UpdateInProgress(f)
        \/ InitClone(f)
        \/ InitGetCheckFn(f)
        \/ CheckBuildifierRun(f)
        \/ BazelGetwd(f)
        \/ BazelChdir(f)
        \/ BazelRun(f)
        \/ BazelChdirBack(f)
        \/ UpdateCompleted(f)
        \/ InitRemoveAll(f)
        \/ InitDeferred(f)
        \/ TakeRequestedAction(f)
        \/ FixToken(f)
        \/ FixGetwd(f)
        \/ FixChdir(f)
        \/ FixCheckout(f)
        \/ FixBuildifier(f)
        \/ FixCommit(f)
        \/ FixPush(f)
        \/ FixChdirBack(f)

Spec == Init /\ [][Next]_vars

\* one more delivery, handled concurrently with the others or after them
SpecConcurrent == InitConcurrent /\ [][Next]_vars

----------------------------------------------------------------------------
(* The runners on their own: SpecParse *)

\* checkBazelBuild scanning an empty stdout like any other
checkBazelBuildNoShortCircuit(dir, x) ==
    LET r == runCmd(x)
    IN IF Getwd.err # "nil"
       THEN [res |-> <<>>, err |-> "failed to get current directory", cwd |-> cwd]
       ELSE IF ~CanChdir(dir)
       THEN [res |-> <<>>, err |-> "failed to change directory", cwd |-> cwd]
       ELSE [res |-> <<ParseBazel(r)>>, err |-> "nil", cwd |-> Getwd.dir]

\* checkBazelBuild(app, dir) run without interruption, the bb subprocess
\* behaving as x: what it returns and the working directory it leaves.
\* The directory it changes back to is the one Getwd just returned.
checkBazelBuild(dir, x) ==
    LET r == runCmd(x)
    IN IF Getwd.err # "nil"
       THEN [res |-> <<>>, err |-> "failed to get current directory", cwd |-> cwd]
       ELSE IF ~CanChdir(dir)
       THEN [res |-> <<>>, err |-> "failed to change directory", cwd |-> cwd]
       ELSE IF Len(r.stdout) = 0
       THEN [res |-> <<>>, err |-> r.err, cwd |-> dir]
       ELSE [res |-> <<ParseBazel(r)>>, err |-> "nil", cwd |-> Getwd.dir]

\* the streams of at most MaxLines lines, each line one of lines
Streams(lines) == UNION {[1..n -> lines] : n \in 0..MaxLines}

\* lines of buildifier's stderr: a file of dir with and without the comment
\* after "#", an empty line, a message that names no file, and a file
\* that is not under dir
PkgLine(dir) == dir \o <<"/", "pkg", "/", "BUILD">>
EmptyLine == <<>>
WarnLine == <<"buildifier", ":", " ", "warning">>
OutsideLine == <<"/", "etc", "/", "BUILD", " ", "#", " ", "reformat">>

BuildifierLines(dir) ==
    {LintLine(dir), PkgLine(dir), EmptyLine, WarnLine, OutsideLine}

\* lines of bb's stdout: two results URLs; a diagnostic behind a noise
\* prefix; the diagnostic itself, bare and surrounded by spaces; diagnostics
\* with a line number too long for an int, with an absolute file, and with
\* no file and line number 0; and a line that is none of these
UrlLine2 == UrlPrefix \o <<"https", ":", "/", "/", "x", "/", "z">>
NoiseDiagLine == <<"ERROR", ":", " ">> \o DiagLine
PaddedDiagLine == <<" ", " ">> \o DiagLine \o <<" ">>
OverflowDiagLine ==
    <<"pkg", "/", "BUILD", ":", "99999999999999999999", ":", "3", ":", " ", "undeclared">>
AbsDiagLine == <<"/", "src", "/", "a.go", ":", "3", ":", "3", ":", " ", "undefined">>
NoFileDiagLine == <<":", "0", ":", "3", ":", " ", "undefined">>

BazelLines ==
    {UrlLine, UrlLine2, NoiseDiagLine, DiagLine, PaddedDiagLine,
     OverflowDiagLine, AbsDiagLine, NoFileDiagLine, NoteLine}

\* the build log with a URL, a noise line and one diagnostic reported twice
ExampleLog == <<UrlLine, ErrorLine, DiagLine, DiagLine>>

\* a build log with a diagnostic behind each noise prefix, and bare
InfoDiagLine == <<"INFO", ":", " ">> \o DiagLine
FailedDiagLine == <<"FAILED", ":", " ">> \o DiagLine
NoiseLog == <<InfoDiagLine, FailedDiagLine, NoiseDiagLine, DiagLine>>

\* a build log whose first line ends where the URL would start
BareUrlLog == <<UrlPrefix, UrlLine2, UrlLine>>

\* a subprocess of runCmd: it exits 0 or not, having written to stdout, to
\* stderr, to both or to neither, or it cannot be started
ProcessRuns ==
    { Exec(e, out, errs) : e \in {"nil", "exit status 1"},
                           out \in {<<>>, <<NoteLine>>},
                           errs \in {<<>>, <<NoteLine>>, <<EmptyLine>>} }
    \cup { Exec("executable file not found", <<>>, <<>>) }

\* the invocations SpecParse studies.  buildifier reports on stderr, exiting
\* 0 or not; bb writes its log to stdout and may write to stderr, exiting
\* 0 or not; a tool that cannot be started writes nothing.
Inputs ==
    LET bdir == getTmpDir(GetFullName("r1"), buildifierCheck)
        zdir == getTmpDir(GetFullName("r1"), nogoCheck)
    IN { [fn |-> "checkBuildifier", dir |-> bdir, x |-> Exec(e, <<>>, lines)] :
           e \in {"nil", "exit status 4"}, lines \in Streams(BuildifierLines(bdir)) }
       \cup
       { [fn |-> "checkBazelBuild", dir |-> zdir, x |-> Exec(e, lines, errs)] :
           e \in {"nil", "exit status 1"},
           lines \in Streams(BazelLines) \cup {ExampleLog, BareUrlLog, NoiseLog},
           errs \in {<<>>, <<NoteLine>>} }
       \cup
       { [fn |-> fn, dir |-> getTmpDir(GetFullName("r1"), GetCheckName(fn)),
          x |-> Exec("executable file not found", <<>>, <<>>)] : fn \in RunnerNames }
       \cup
       { [fn |-> "runCmd", dir |-> ServerDir, x |-> x] : x \in ProcessRuns }

\* the repository is provisioned at input.dir (runCmd on its own runs in the
\* server's directory); no flow is under way
InitParse ==
    /\ input \in Inputs
    /\ returned = <<>>
    /\ pc = <<>> /\ event = <<>> /\ calls = <<>>
    /\ curDir = <<>> /\ result = <<>> /\ err = <<>>
    /\ fs = IF input.fn \in RunnerNames THEN {input.dir} ELSE {}
    /\ cwd = ServerDir

\* one more invocation of checkBuildifier on the provisioned directory
InvokeCheckBuildifier ==
    /\ input.fn = "checkBuildifier"
    /\ Len(returned) < MaxInvocations
    /\ returned' = Append(returned, checkBuildifier(input.dir, runCmd(input.x)))
    /\ UNCHANGED <<pc, event, calls, curDir, result, err, fs, cwd, input>>

\* one more invocation of checkBazelBuild on the provisioned directory
InvokeCheckBazelBuild ==
    /\ input.fn = "checkBazelBuild"
    /\ Len(returned) < MaxInvocations
    /\ LET ret == checkBazelBuild(input.dir, input.x)
       IN /\ returned' = Append(returned, [res |-> ret.res, err |-> ret.err])
          /\ cwd' = ret.cwd
    /\ UNCHANGED <<pc, event, calls, curDir, result, err, fs, input>>

\* one more call of runCmd for a subprocess that behaves as input.x
InvokeRunCmd ==
    /\ input.fn = "runCmd"
    /\ Len(returned) < MaxInvocations
    /\ returned' = Append(returned, runCmd(input.x))
    /\ UNCHANGED <<pc, event, calls, curDir, result, err, fs, cwd, input>>

NextParse == InvokeCheckBuildifier \/ InvokeCheckBazelBuild \/ InvokeRunCmd

SpecParse == InitParse /\ [][NextParse]_vars

----------------------------------------------------------------------------
(* Reading the calls of a flow *)

\* flow f was dispatched to handler h
Invoked(f, h) ==
    calls[f] # <<>> /\ calls[f][1].op = "invoke" /\ calls[f][1].arg = <<h>>

IsUpdate(c, status) == c.op = "updateCheckRun" /\ c.arg[1] = status

IsRunCmd(c, tool, sub) == c.op = "runCmd" /\ c.arg[1] = tool /\ c.arg[2] = sub

\* a cloneRepo call that left its target directory on disk
MadeDir(c) == c.op = "cloneRepo" /\ c.arg[2] \in {"ref failed", "cloned"}

\* no flow other than f provisioned into directory d
OnlyUser(f, d) ==
    \A g \in Flows \ {f} : \A i \in DOMAIN calls[g] :
        ~(calls[g][i].op = "cloneRepo" /\ calls[g][i].at = d)

----------------------------------------------------------------------------
(* C1 *)

\* C1: in one InitCheckRun flow the in_progress update is the first call and
\* is issued once; provisioning and the runner are attempted only after it
\* succeeded; the completed update is issued at most once, only after the
\* runner returned, and only cleanup follows it.
C1_InitCheckRunOrder ==
    \A f \in Flows : Invoked(f, "InitCheckRun") =>
        LET c == calls[f]
        IN /\ Len(c) >= 2 => IsUpdate(c[2], "in_progress")
           /\ Len(c) >= 3 => c[2].ok
           /\ \A i \in 3..Len(c) : ~IsUpdate(c[i], "in_progress")
           /\ \A k \in DOMAIN c :
                c[k].op \in {"GetCheckFn", "runCmd", "Getwd", "Chdir", "checker"}
                => \E i \in 1..(k - 1) : c[i].op = "cloneRepo" /\ c[i].ok
           /\ \A j \in DOMAIN c : IsUpdate(c[j], "completed") =>
                /\ \E k \in 1..(j - 1) : c[k].op = "checker" /\ c[k].ok
                /\ \A i \in DOMAIN c : IsUpdate(c[i], "completed") => i = j
                /\ \A i \in (j + 1)..Len(c) : c[i].op = "RemoveAll"

\* a check-run flow that went through all its calls and returned
C1_Witness ==
    \E f \in Flows :
        /\ Invoked(f, "InitCheckRun") /\ pc[f] = "done"
        /\ \E j \in DOMAIN calls[f] :
            IsUpdate(calls[f][j], "completed") /\ calls[f][j].ok

----------------------------------------------------------------------------
(* C2 *)

\* provisioning, the lookup of the runner or the runner returned an error
FailedWork(c) == c.op \in {"cloneRepo", "GetCheckFn", "checker"} /\ ~c.ok

\* C2: once provisioning, GetCheckFn or the runner returned an error, an
\* InitCheckRun flow issues no completed update: it only cleans up and
\* returns, the last update it issued being the in_progress one.
C2_ErrorLeavesRunInProgress ==
    \A f \in Flows : Invoked(f, "InitCheckRun") =>
        LET c == calls[f]
        IN \A i \in DOMAIN c : FailedWork(c[i]) =>
            /\ \A j \in DOMAIN c : ~IsUpdate(c[j], "completed")
            /\ \A j \in (i + 1)..Len(c) : c[j].op = "RemoveAll"
            /\ pc[f] \in {"icr_defer", "done"}
            /\ IsUpdate(c[2], "in_progress") /\ c[2].ok

\* a flow whose runner returned an error has cleaned up and returned
C2_Witness ==
    \E f \in Flows :
        /\ pc[f] = "done" /\ Invoked(f, "InitCheckRun")
        /\ \E i \in DOMAIN calls[f] : calls[f][i].op = "checker" /\ ~calls[f][i].ok

----------------------------------------------------------------------------
(* C3 *)

\* C3: an InitCheckRun flow that returned after its provisioning put the
\* directory on disk has removed it (no other flow using that directory).
C3_CheckRunDirRemoved ==
    \A f \in Flows :
        ( /\ pc[f] = "done" /\ Invoked(f, "InitCheckRun")
          /\ \E i \in DOMAIN calls[f] : MadeDir(calls[f][i])
          /\ OnlyUser(f, CheckDir(event[f])) )
        => CheckDir(event[f]) \notin fs

----------------------------------------------------------------------------
(* C4 *)

\* C4: a remediation flow that returned, with or without an error, has
\* deleted the directory it provisioned (no other flow using that directory).
C4_FixDirRemoved ==
    \A f \in Flows :
        ( /\ pc[f] = "done" /\ Invoked(f, "TakeRequestedAction")
          /\ \E i \in DOMAIN calls[f] : MadeDir(calls[f][i])
          /\ OnlyUser(f, FixDir(event[f])) )
        => FixDir(event[f]) \notin fs

----------------------------------------------------------------------------
(* C5 *)

\* C5: provisioning never fails because a directory already exists at the
\* flow's provisioning path: the leftover is clobbered.
C5_LeftoverDirClobbered ==
    \A f \in Flows : \A i \in DOMAIN calls[f] :
        (calls[f][i].op = "cloneRepo" /\ calls[f][i].arg[3] = "existed")
        => calls[f][i].arg[2] # "repository already exists"

----------------------------------------------------------------------------
(* C6 *)

\* C6: in a remediation flow no subprocess is run after a step failed, a
\* step failing when its subprocess exits unsuccessfully.
C6_NoStepAfterFailedStep ==
    \A f \in Flows : Invoked(f, "TakeRequestedAction") =>
        LET c == calls[f]
        IN \A i \in DOMAIN c :
            (c[i].op \in {"cloneRepo", "runCmd"} /\ ~c[i].ok)
            => \A j \in (i + 1)..Len(c) : c[j].op # "runCmd"

----------------------------------------------------------------------------
(* C7 *)

\* C7: when runCmd of buildifier --mode=fix returned an error, the flow has
\* returned and has run neither git commit nor git push.
C7_FixErrorStopsRemediation ==
    \A f \in Flows : \A i \in DOMAIN calls[f] :
        (IsRunCmd(calls[f][i], "buildifier", "--mode=fix") /\ calls[f][i].arg[3] # "nil")
        => /\ pc[f] = "done" /\ err[f] # "nil"
           /\ \A j \in DOMAIN calls[f] :
                /\ ~IsRunCmd(calls[f][j], "git", "commit")
                /\ ~IsRunCmd(calls[f][j], "git", "push")

\* the checkout succeeded and the auto-fix tool then failed
C7_Witness ==
    \E f \in Flows : \E i \in DOMAIN calls[f] :
        /\ i > 1
        /\ IsRunCmd(calls[f][i - 1], "git", "checkout") /\ calls[f][i - 1].ok
        /\ IsRunCmd(calls[f][i], "buildifier", "--mode=fix")
        /\ calls[f][i].arg[3] # "nil"

----------------------------------------------------------------------------
(* C8 *)

\* C8: a check_run event of another app's check run is handled without any
\* call, whatever its action: nothing created, updated, provisioned or run.
C8_ForeignCheckRunIgnored ==
    \A f \in Flows :
        (event[f].type = "check_run" /\ event[f].app # appID)
        => calls[f] = <<>> /\ pc[f] = "done" /\ err[f] = "nil"

\* a requested action on another app's check run, carrying the fix
\* identifier, has been handled
C8_Witness ==
    \E f \in Flows :
        /\ event[f].type = "check_run" /\ event[f].app = OtherAppID
        /\ event[f].action = "requested_action" /\ event[f].ident = buildifierFix
        /\ pc[f] = "done"

----------------------------------------------------------------------------
(* C9 *)

\* the handler the dispatch table gives event e
Expected(e) ==
    IF e.type = "check_suite" /\ e.action \in {"requested", "rerequested"}
    THEN "CreateCheckRuns"
    ELSE IF e.type = "check_run" /\ e.app = appID /\ e.action = "created"
    THEN "InitCheckRun"
    ELSE IF e.type = "check_run" /\ e.app = appID /\ e.action = "rerequested"
    THEN "CreateCheckRuns"
    ELSE IF e.type = "check_run" /\ e.app = appID /\ e.action = "requested_action"
    THEN "TakeRequestedAction"
    ELSE "none"

\* the handler a call belongs to
HandlerOf(c) ==
    CASE c.op = "createCheckRun" -> "CreateCheckRuns"
      [] c.op \in {"updateCheckRun", "GetCheckFn", "checker", "RemoveAll"} -> "InitCheckRun"
      [] c.op = "cloneRepo" -> IF c.arg[1] = "hash" THEN "InitCheckRun"
                               ELSE "TakeRequestedAction"
      [] c.op = "Token" -> "TakeRequestedAction"
      [] c.op = "runCmd" -> IF c.arg[1] = "bb" \/ c.arg[2] = "--mode=check"
                            THEN "InitCheckRun" ELSE "TakeRequestedAction"
      [] OTHER -> "any"

\* C9: a validated delivery invokes at most one handler, the one the
\* dispatch table gives its event, and every call it issues is that
\* handler's; an event the table has no entry for issues no call and is no
\* error; a rerequested run's check runs are created at the run's head SHA;
\* a requested action other than the fix provisions and runs nothing.
C9_DispatchTable ==
    \A f \in Flows : event[f] # NoEvent =>
        LET c == calls[f]
            e == event[f]
            inv == SelectSeq(c, LAMBDA x : x.op = "invoke")
        IN /\ inv = IF Expected(e) = "none" THEN <<>>
                    ELSE <<Call("invoke", <<Expected(e)>>, TRUE, NoDir)>>
           /\ \A i \in DOMAIN c :
                c[i].op # "invoke" => HandlerOf(c[i]) \in {"any", Expected(e)}
           /\ Expected(e) = "none" =>
                c = <<>> /\ pc[f] = "done" /\ err[f] = "nil"
           /\ \A i \in DOMAIN c : c[i].op = "createCheckRun" => c[i].arg[2] = e.sha
           /\ (e.action = "requested_action" /\ e.ident # buildifierFix) =>
                /\ Len(c) <= 1
                /\ pc[f] \in {"tra_ident", "done"}
                /\ pc[f] = "done" => err[f] = "nil"

\* an owned rerequested run has been handled by CreateCheckRuns
C9_Witness ==
    \E f \in Flows :
        /\ pc[f] = "done"
        /\ event[f].type = "check_run" /\ event[f].app = appID
        /\ event[f].action = "rerequested"
        /\ Invoked(f, "CreateCheckRuns") /\ Len(calls[f]) = 3

----------------------------------------------------------------------------
(* C10 *)

\* the createCheckRun calls of flow f, in order
CreateCalls(f) == SelectSeq(calls[f], LAMBDA c : c.op = "createCheckRun")

\* C10 as stated: a flow that handled a (re)requested event has issued
\* exactly one createCheckRun call for each registered check name, at the
\* event's head SHA, and each of these names has a runner.
C10_OneRunPerCheck ==
    \A f \in Flows : (pc[f] = "done" /\ Invoked(f, "CreateCheckRuns")) =>
        \A n \in DOMAIN checks :
            /\ Cardinality({i \in DOMAIN calls[f] :
                    /\ calls[f][i].op = "createCheckRun"
                    /\ calls[f][i].arg = <<checks[n], event[f].sha>>}) = 1
            /\ GetCheckFn(checks[n]).fn \in RunnerNames

\* C10 as amended: the createCheckRun calls go through the registered names
\* in order, one call a name, each at the event's head SHA, and stop at the
\* first call the platform rejects; a flow that returned without error
\* issued exactly one call for each name; each name has a runner.
C10_OneRunPerCheckUntilError ==
    \A f \in Flows : Invoked(f, "CreateCheckRuns") =>
        LET cr == CreateCalls(f)
        IN /\ Len(cr) <= Len(checks)
           /\ \A i \in DOMAIN cr :
                /\ cr[i].arg = <<checks[i], event[f].sha>>
                /\ i < Len(cr) => cr[i].ok
                /\ GetCheckFn(checks[i]).fn \in RunnerNames
           /\ pc[f] = "done" =>
                /\ Len(cr) >= 1
                /\ Len(cr) = Len(checks) \/ ~cr[Len(cr)].ok
                /\ err[f] = "nil" <=> (Len(cr) = Len(checks) /\ cr[Len(cr)].ok)

\* a rerequested run's flow created both check runs at the run's head SHA
C10_Witness ==
    \E f \in Flows :
        /\ pc[f] = "done" /\ err[f] = "nil"
        /\ event[f].type = "check_run" /\ event[f].action = "rerequested"
        /\ Len(CreateCalls(f)) = Len(checks)
        /\ \A i \in DOMAIN checks :
            CreateCalls(f)[i].arg = <<checks[i], "sha2">> /\ CreateCalls(f)[i].ok

----------------------------------------------------------------------------
(* C11 *)

\* the result of the runner of flow f, once it returned without error
Returned(f) ==
    \E i \in DOMAIN calls[f] : calls[f][i].op = "checker" /\ calls[f][i].ok

\* C11: a runner whose tool was run and that returned a nil error returned
\* a Result that is not nil, so that InitCheckRun never comes to build the
\* completed update from a nil Result.
C11_RunnerNeverNilNil ==
    \A f \in Flows :
        /\ (\E i \in DOMAIN calls[f] : calls[f][i].op = "runCmd") /\ Returned(f)
              => result[f] # <<>>
        /\ pc[f] = "icr_completed" => result[f] # <<>>

----------------------------------------------------------------------------
(* C12 *)

\* the stream the runner parses of what runCmd returned: stderr for
\* buildifier, stdout for bb
Parsed(c) == IF c.arg[1] = "bb" THEN c.opts[1].stdout ELSE c.opts[1].stderr

\* C12: in a check-run flow whose tool exited unsuccessfully, a tool that
\* wrote to the parsed stream makes the runner return no error and a Result
\* of conclusion failure, which is what the completed update carries; and
\* no completed update of the flow has conclusion success.
C12_FailedToolNeverSuccess ==
    \A f \in Flows : Invoked(f, "InitCheckRun") =>
        LET c == calls[f]
        IN \A i \in DOMAIN c : (c[i].op = "runCmd" /\ ~c[i].ok) =>
            /\ \A k \in DOMAIN c :
                  (c[k].op = "checker" /\ Len(Parsed(c[i])) > 0) =>
                      /\ c[k].ok
                      /\ result[f] # <<>>
                      /\ result[f][1].Conclusion = "failure"
            /\ \A j \in DOMAIN c : IsUpdate(c[j], "completed") =>
                  /\ c[j].opts[1].Conclusion # "success"
                  /\ Len(Parsed(c[i])) > 0 =>
                        c[j].opts[1].Conclusion = result[f][1].Conclusion

----------------------------------------------------------------------------
(* Reading what the runner under study returned *)

\* the invocations that returned a Result, and the Result of one
WithResult ==
    {k \in DOMAIN returned : input.fn \in RunnerNames /\ returned[k].res # <<>>}
ResultOf(k) == returned[k].res[1]

OfBuildifier == input.fn = "checkBuildifier"
OfBazel == input.fn = "checkBazelBuild"

\* the stream the runner parses: stderr of buildifier, stdout of bb
ParsedStream == IF OfBazel THEN input.x.stdout ELSE input.x.stderr

\* a build-log line is a diagnostic line when, trimmed, it does not start
\* with a noise prefix and has the form <file>:<line>:<column>:<message>
IsDiagnostic(line) ==
    LET t == TrimSpace(line)
    IN /\ ~HasPrefix(t, <<"ERROR", ":", " ">>)
       /\ ~HasPrefix(t, <<"INFO", ":", " ">>)
       /\ ~HasPrefix(t, <<"FAILED", ":", " ">>)
       /\ \E i \in 1..(Len(t) - 4) :
             /\ t[i] = ":" /\ t[i + 1] \in Digits /\ t[i + 2] = ":"
             /\ t[i + 3] \in Digits /\ t[i + 4] = ":"

\* the positions of the diagnostic lines of the parsed stream: for the
\* formatting check every line of the stream is taken for one
DiagnosticLines ==
    IF OfBazel THEN {i \in DOMAIN ParsedStream : IsDiagnostic(ParsedStream[i])}
    ELSE DOMAIN ParsedStream

\* the distinct diagnostic lines of the build log, trimmed
DistinctDiagnostics == {TrimSpace(ParsedStream[i]) : i \in DiagnosticLines}

----------------------------------------------------------------------------
(* C13 *)

----------------------------------------------------------------------------
(* C14 *)

\* C14: for a build log with at least one diagnostic line checkBazelBuild
\* returns a Result of conclusion failure whose number of annotations is
\* the number of distinct trimmed diagnostic lines.
C14_OneAnnotationPerDistinctLine ==
    \A k \in DOMAIN returned : (OfBazel /\ DiagnosticLines # {}) =>
        /\ returned[k].err = "nil" /\ k \in WithResult
        /\ ResultOf(k).Conclusion = "failure"
        /\ Len(ResultOf(k).Annotations) = Cardinality(DistinctDiagnostics)

\* three diagnostic lines, two of them equal once trimmed
C14_Witness ==
    /\ OfBazel /\ returned # <<>>
    /\ Cardinality(DiagnosticLines) = 3 /\ Cardinality(DistinctDiagnostics) = 2

----------------------------------------------------------------------------
(* C15 *)

\* the annotation the build-log parser is to make of diagnostic line t
AnnotationOf(t) ==
    LET d == FindDiagnostic(t)
    IN Annotation(d.comment, Atoi(d.line).n, d.file, "failure")

\* C15: in every invocation of checkBazelBuild each diagnostic line of the
\* log, however often the log repeats it, has exactly one annotation (as
\* many annotations equal to it as distinct lines make that annotation),
\* whether or not the runner was invoked on the same log before.
C15_DedupPerInvocation ==
    \A k \in DOMAIN returned : OfBazel => \A t \in DistinctDiagnostics :
        /\ k \in WithResult
        /\ Cardinality({j \in DOMAIN ResultOf(k).Annotations :
                           ResultOf(k).Annotations[j] = AnnotationOf(t)})
             = Cardinality({u \in DistinctDiagnostics : AnnotationOf(u) = AnnotationOf(t)})

\* two invocations on a log that holds the same diagnostic line twice
C15_Witness ==
    /\ OfBazel /\ Len(returned) = 2
    /\ \E i, j \in DiagnosticLines : i # j /\ ParsedStream[i] = ParsedStream[j]

----------------------------------------------------------------------------
(* C16 *)

\* C16: the formatting check makes one annotation, of line 1 and severity
\* failure, of every non-empty line of stderr, and no other.
C16_OneAnnotationPerNonEmptyLine ==
    \A k \in WithResult : OfBuildifier =>
        /\ Len(ResultOf(k).Annotations) =
              Cardinality({i \in DOMAIN ParsedStream : ParsedStream[i] # <<>>})
        /\ \A j \in DOMAIN ResultOf(k).Annotations :
              /\ ResultOf(k).Annotations[j].Line = 1
              /\ ResultOf(k).Annotations[j].Severity = "failure"

----------------------------------------------------------------------------
(* C17 *)

\* C17: a Result carries an Action exactly when checkBuildifier returned it
\* with conclusion failure; the Action's identifier is buildifierFix, the
\* one TakeRequestedAction acts on, and the completed update offers it.
C17_ActionOnlyOnLintFailure ==
    \A k \in WithResult :
        LET res == ResultOf(k)
            opts == createCompletedUpdateCheckRunOptions(res, GetCheckName(input.fn))
        IN /\ res.Action # NoAction <=> (OfBuildifier /\ res.Conclusion = "failure")
           /\ res.Action # NoAction =>
                 /\ Len(res.Action) = 1
                 /\ res.Action[1].Identifier = buildifierFix
                 /\ opts.Actions # <<>> /\ opts.Actions[1].Identifier = buildifierFix
           /\ res.Action = NoAction => opts.Actions = <<>>

\* checkBuildifier returned a failure Result with its Action
C17_Witness ==
    \E k \in WithResult :
        OfBuildifier /\ ResultOf(k).Conclusion = "failure" /\ ResultOf(k).Action # NoAction

----------------------------------------------------------------------------
(* C18 *)

\* C18: the path of every annotation is not empty, is not absolute and
\* does not lead out of the provisioned directory.
C18_PathsRelative ==
    \A k \in WithResult : \A j \in DOMAIN ResultOf(k).Annotations :
        LET path == ResultOf(k).Annotations[j].Path
        IN path # <<>> /\ path[1] # "/" /\ path[1] # ".."

----------------------------------------------------------------------------
(* C19 *)

\* C19: every annotation has a line of 1 or more: 1 for the formatting
\* check, the reported number for the build log, and none is made of a
\* diagnostic line whose number does not convert.
C19_LinesAtLeastOne ==
    \A k \in WithResult :
        /\ \A j \in DOMAIN ResultOf(k).Annotations :
              /\ ResultOf(k).Annotations[j].Line >= 1
              /\ OfBuildifier => ResultOf(k).Annotations[j].Line = 1
        /\ OfBazel =>
              Len(ResultOf(k).Annotations) =
                  Cardinality({t \in DistinctDiagnostics :
                                  Atoi(FindDiagnostic(t).line).err = "nil"})

----------------------------------------------------------------------------
(* C20 *)

\* the example's Result but for the message of its only annotation
ExampleReturned(k) ==
    /\ returned[k].err = "nil" /\ k \in WithResult
    /\ ResultOf(k).URL = <<"https", ":", "/", "/", "x", "/", "y">>
    /\ ResultOf(k).Conclusion = "failure"
    /\ Len(ResultOf(k).Annotations) = 1
    /\ ResultOf(k).Annotations[1].Path = <<"pkg", "/", "BUILD">>
    /\ ResultOf(k).Annotations[1].Line = 12

\* C20 as stated: for the example log checkBazelBuild returns the URL
\* https://x/y, conclusion failure and one annotation of path pkg/BUILD,
\* line 12 and message "undeclared dependency".
C20_ExampleLog ==
    \A k \in DOMAIN returned : (OfBazel /\ ParsedStream = ExampleLog) =>
        /\ ExampleReturned(k)
        /\ ResultOf(k).Annotations[1].Message = <<"undeclared", " ", "dependency">>

\* C20, amended: the same, the message being " undeclared dependency", all
\* that follows the third colon of the line, the space included.
C20_ExampleLogMessageAsIs ==
    \A k \in DOMAIN returned : (OfBazel /\ ParsedStream = ExampleLog) =>
        /\ ExampleReturned(k)
        /\ ResultOf(k).Annotations[1].Message = <<" ", "undeclared", " ", "dependency">>

\* checkBazelBuild was invoked on the example log
C20_Witness == OfBazel /\ ParsedStream = ExampleLog /\ returned # <<>>

----------------------------------------------------------------------------
(* C21 *)

\* the error the runner got from runCmd: the tool's own, unless the tool
\* wrote to stderr
ToolError == IF Len(input.x.stderr) > 0 THEN "nil" ELSE input.x.err

\* C21 as stated: a runner whose parsed stream is empty returns a nil
\* Result together with the tool's error, nil when there was none.
C21_EmptyStreamNoResult ==
    \A k \in DOMAIN returned : (input.fn \in RunnerNames /\ ParsedStream = <<>>) =>
        returned[k].res = <<>> /\ returned[k].err = ToolError

\* C21, amended: so does checkBazelBuild; checkBuildifier does so when the
\* tool's error is not nil, and otherwise returns nil error and a Result of
\* conclusion success with no annotation.
C21_EmptyStreamShortCircuit ==
    \A k \in DOMAIN returned : (input.fn \in RunnerNames /\ ParsedStream = <<>>) =>
        /\ returned[k].err = ToolError
        /\ (OfBazel \/ ToolError # "nil") => returned[k].res = <<>>
        /\ (OfBuildifier /\ ToolError = "nil") =>
              /\ k \in WithResult
              /\ ResultOf(k).Conclusion = "success"
              /\ ResultOf(k).Annotations = <<>>

\* checkBazelBuild returned for a bb that exited unsuccessfully with nothing
\* on stdout and something on stderr
C21_Witness ==
    /\ OfBazel /\ returned # <<>> /\ ParsedStream = <<>>
    /\ input.x.err # "nil" /\ input.x.stderr # <<>>

----------------------------------------------------------------------------
(* C22 *)

\* flow f has returned from the function that made call i of its calls:
\* checkBazelBuild to InitCheckRun, or TakeRequestedAction to HandleWebhook
ReturnedAfter(f, i) ==
    \/ \E k \in (i + 1)..Len(calls[f]) : calls[f][k].op = "checker"
    \/ Invoked(f, "TakeRequestedAction") /\ pc[f] = "done"

\* C22: once the only flow has returned from checkBazelBuild or from
\* TakeRequestedAction, by whatever return statement, the process working
\* directory is the one os.Getwd reported when the function was entered.
C22_WorkingDirectoryRestored ==
    \A f \in Flows : \A i \in DOMAIN calls[f] :
        (calls[f][i].op = "Getwd" /\ calls[f][i].ok /\ ReturnedAfter(f, i))
            => cwd = calls[f][i].at

----------------------------------------------------------------------------
(* C23 *)

\* the directory flow f provisions into
OwnDir(f) ==
    IF Invoked(f, "TakeRequestedAction") THEN FixDir(event[f]) ELSE CheckDir(event[f])

\* a subprocess that is run after a change of directory: bb build, and the
\* git and buildifier --mode=fix of the remediation
RunsInOwnDir(c) == c.op = "runCmd" /\ ~IsRunCmd(c, "buildifier", "--mode=check")

\* C23: when the flows provision into different directories, every such
\* subprocess of a flow runs with the process working directory equal to
\* the flow's own provisioning directory, and the directory a flow changes
\* back to is the one the server was started in.
C23_FlowsKeepOwnDirectory ==
    (\A f, g \in Flows : (f # g /\ calls[f] # <<>> /\ calls[g] # <<>>)
                             => OwnDir(f) # OwnDir(g))
    => \A f \in Flows : \A i \in DOMAIN calls[f] :
         /\ RunsInOwnDir(calls[f][i]) => calls[f][i].at = OwnDir(f)
         /\ (calls[f][i].op = "Chdir" /\ calls[f][i].arg = <<"curDir">>)
               => calls[f][i].at = ServerDir

----------------------------------------------------------------------------
(* C24 *)

\* C24: runCmd returns what the process wrote to stdout and to stderr in
\* every case; the error it returns is not nil exactly when the process
\* failed (to start, or by its exit) and wrote nothing to stderr, and
\* is then the process's error.
C24_RunCmdErrorRule ==
    \A k \in DOMAIN returned : input.fn = "runCmd" =>
        LET failed == input.x.err # "nil"
        IN /\ returned[k].stdout = input.x.stdout
           /\ returned[k].stderr = input.x.stderr
           /\ returned[k].err # "nil" <=> (failed /\ Len(input.x.stderr) = 0)
           /\ returned[k].err # "nil" => returned[k].err = input.x.err

\* runCmd returned for a process that failed and had written to stderr
C24_Witness ==
    /\ input.fn = "runCmd" /\ returned # <<>>
    /\ input.x.err # "nil" /\ Len(input.x.stderr) > 0

----------------------------------------------------------------------------
(* C25 *)

\* the places of trimmed line t where "Streaming build results to: " starts
UrlPlaces(t) ==
    {p \in 1..Len(t) : \A q \in 1..Len(UrlPrefix) :
        p + q - 1 <= Len(t) /\ t[p + q - 1] = UrlPrefix[q]}

\* the lines of the build log that match the URL pattern
UrlLines == {i \in DOMAIN ParsedStream : UrlPlaces(TrimSpace(ParsedStream[i])) # {}}

\* what follows the first place of the pattern in trimmed line t
UrlOf(t) ==
    LET p == CHOOSE p \in UrlPlaces(t) : \A q \in UrlPlaces(t) : p <= q
    IN SubSeq(t, p + Len(UrlPrefix), Len(t))

\* C25: the url of a Result of checkBazelBuild is the value captured from
\* the first line of the log that matches the pattern, whatever later
\* lines hold, and is empty when no line matches.
C25_FirstUrlWins ==
    \A k \in WithResult : OfBazel =>
        IF UrlLines = {} THEN ResultOf(k).URL = <<>>
        ELSE LET i == CHOOSE i \in UrlLines : \A j \in UrlLines : i <= j
             IN ResultOf(k).URL = UrlOf(TrimSpace(ParsedStream[i]))

\* a Result for a log with two matching lines of different values
C25_Witness ==
    /\ OfBazel /\ WithResult # {}
    /\ \E i, j \in UrlLines :
          i < j /\ ParsedStream[i] = UrlLine2 /\ ParsedStream[j] = UrlLine

----------------------------------------------------------------------------
(* C26 *)

\* trimmed line t begins with one of the noise prefixes
HasNoisePrefix(t) ==
    /\ Len(t) >= 3 /\ t[1] \in {"ERROR", "INFO", "FAILED"}
    /\ t[2] = ":" /\ t[3] = " "

\* the lines of the build log that are not noise lines, in order
WithoutNoise == SelectSeq(ParsedStream, LAMBDA l : ~HasNoisePrefix(TrimSpace(l)))

\* C26: no line of the build log that begins with a noise prefix makes an
\* annotation (the annotations of the Result are those of the log without
\* its noise lines, and no path begins with a noise prefix), and the dedup
\* set the scan ends with holds no such line.
C26_NoiseNeverAnnotated ==
    \A k \in WithResult : OfBazel =>
        /\ ResultOf(k).Annotations =
              ParseBazel([runCmd(input.x) EXCEPT !.stdout = WithoutNoise]).Annotations
        /\ \A j \in DOMAIN ResultOf(k).Annotations :
              ~HasNoisePrefix(ResultOf(k).Annotations[j].Path)
        /\ \A t \in ScanBazel(ParsedStream,
                              [url |-> <<>>, m |-> {}, annotations |-> <<>>]).m :
              ~HasNoisePrefix(t)

\* a Result for the log that has the diagnostic behind each noise prefix
C26_Witness == OfBazel /\ WithResult # {} /\ ParsedStream = NoiseLog

====
